---- MODULE Spec2Model ----
(***************************************************************************)
(* A model of core/facebook_soup_parser.py: the page extractors of         *)
(* FacebookSoupParser and the error classifier detect_error_type.          *)
(*                                                                         *)
(* Every extractor is a synchronous function of one page.  A page is       *)
(* modelled by the features the code inspects (elements with their ids in  *)
(* document order, links with their targets and texts, articles with their *)
(* sub-elements).  Text that the code cuts, searches or converts is a      *)
(* sequence of lexemes, so that split, replace, "in" and int() are         *)
(* computed as Python computes them.  An optional tag (the result of       *)
(* soup.find) is a sequence of length at most one.                         *)
(***************************************************************************)
EXTENDS Integers, Sequences, FiniteSets, TLC

\* call: the function applied ("none" before the call); input: the page it was
\* applied to; result: its outcome; log: what it passed to logging.error
VARIABLES call, input, result, log

vars == <<call, input, result, log>>

(***************************************************************************)
(* Bounds of the model.                                                    *)
(***************************************************************************)
MaxElements == 2
MaxLinks == 2
MaxArticles == 3
MaxChildren == 2
MaxCategories == 2
MaxTargetLen == 5
MaxBirthdayLen == 5
MaxUsers == 2
MaxTimestamp == 2
MaxHeaderLen == 3

(***************************************************************************)
(* Outcomes of a call: the value None, another value, or an exception.     *)
(***************************************************************************)
ReturnNone == [kind |-> "None"]
Return(v) == [kind |-> "value", value |-> v]
Raise(e) == [kind |-> "raise", exc |-> e]

\* a value returned after a call of logging.error, what was returned, and what
\* was logged
Logged(v, message) == [kind |-> "value", value |-> v, error |-> message]
Returned(outcome) == IF outcome.kind = "value" THEN Return(outcome.value) ELSE outcome
ErrorsOf(outcome) == IF "error" \in DOMAIN outcome THEN <<outcome.error>> ELSE <<>>

\* the next statement F, run on the value of an outcome unless it is an exception
Then(outcome, F(_)) == IF outcome.kind = "raise" THEN outcome ELSE F(outcome.value)

(***************************************************************************)
(* Python's sequence operations on text.                                   *)
(***************************************************************************)
SeqsUpTo(S, n) == UNION {[1..k -> S] : k \in 0..n}

OccursAt(s, pat, i) ==
    /\ i >= 1
    /\ i + Len(pat) - 1 <= Len(s)
    /\ \A k \in 1..Len(pat) : s[i + k - 1] = pat[k]

\* the least element of a non-empty set of numbers
Min(S) == CHOOSE x \in S : \A y \in S : x <= y

\* the position of the leftmost occurrence of pat in s, Len(s) + 1 when none
Find(s, pat) == Min({i \in 1..Len(s) : OccursAt(s, pat, i)} \cup {Len(s) + 1})

\* pat in s
Contains(s, pat) == Find(s, pat) <= Len(s)

\* s.split(pat)[0]
SplitFirst(s, pat) == SubSeq(s, 1, Find(s, pat) - 1)

\* s[n:]
DropFirst(s, n) == SubSeq(s, n + 1, Len(s))

\* s.split(pat): the list of the pieces between the occurrences of pat
RECURSIVE SplitAt(_, _, _)
SplitAt(s, pat, i) ==
    IF i > Len(s) THEN <<s>>
    ELSE <<SubSeq(s, 1, i - 1)>>
            \o SplitAt(DropFirst(s, i + Len(pat) - 1), pat,
                       Find(DropFirst(s, i + Len(pat) - 1), pat))

Split(s, pat) == SplitAt(s, pat, Find(s, pat))

\* s.count(c) for a one-character c
RECURSIVE Count(_, _)
Count(s, c) ==
    IF s = <<>> THEN 0
    ELSE (IF Head(s) = c THEN 1 ELSE 0) + Count(Tail(s), c)

\* s.replace(c, "") for a one-character c
RECURSIVE Remove(_, _)
Remove(s, c) ==
    IF s = <<>> THEN <<>>
    ELSE (IF Head(s) = c THEN <<>> ELSE <<Head(s)>>) \o Remove(Tail(s), c)

\* sep.join(parts)
RECURSIVE Join(_, _)
Join(parts, sep) ==
    IF parts = <<>> THEN <<>>
    ELSE IF Len(parts) = 1 THEN parts[1]
    ELSE parts[1] \o sep \o Join(Tail(parts), sep)

Digits == {"0", "1", "2", "3", "4", "5", "6", "7", "8", "9"}

DigitValue(c) ==
    CASE c = "0" -> 0 [] c = "1" -> 1 [] c = "2" -> 2 [] c = "3" -> 3
      [] c = "4" -> 4 [] c = "5" -> 5 [] c = "6" -> 6 [] c = "7" -> 7
      [] c = "8" -> 8 [] c = "9" -> 9

\* int(s) is defined on a non-empty run of digits, and raises ValueError otherwise
IsInt(s) == s # <<>> /\ \A k \in 1..Len(s) : s[k] \in Digits

RECURSIVE IntOf(_)
IntOf(s) ==
    IF s = <<>> THEN 0
    ELSE 10 * IntOf(SubSeq(s, 1, Len(s) - 1)) + DigitValue(s[Len(s)])

\* int(digits)
int(digits) == IF IsInt(digits) THEN Return(IntOf(digits)) ELSE Raise("ValueError")

(***************************************************************************)
(* detect_error_type: the classification of a page without its container.  *)
(* login_input: the page holds <input name="login">.  unavailable: where   *)
(* the text "It may be temporarily unavailable" occurs: "span" as the      *)
(* string of a span element, "other" elsewhere, "absent" nowhere.          *)
(***************************************************************************)
LoginRequested == "Cookie expired or is invalid, login requested"
TemporarilyUnavailable == "Page temporarily unavailable / broken / expired link"
FailedToParse == "Failed to parse page"

ErrorTypes == {LoginRequested, TemporarilyUnavailable, FailedToParse}

UnavailablePlaces == {"absent", "span", "other"}

\* detect_error_type with its two tests exchanged
detect_error_type_text_first(content) ==
    IF content.unavailable = "span" THEN TemporarilyUnavailable
    ELSE IF content.login_input THEN LoginRequested
    ELSE FailedToParse

detect_error_type(content) ==
    IF content.login_input THEN LoginRequested
    ELSE IF content.unavailable = "span" THEN TemporarilyUnavailable
    ELSE FailedToParse

(***************************************************************************)
(* collections.OrderedDict: a sequence of <<key, value>> pairs with        *)
(* distinct keys, in order of first insertion.                             *)
(***************************************************************************)
Keys(d) == [k \in 1..Len(d) |-> d[k][1]]

HasKey(d, key) == \E k \in 1..Len(d) : d[k][1] = key

Get(d, key) == d[CHOOSE k \in 1..Len(d) : d[k][1] = key][2]

\* d[key] = value: an existing key keeps its position and takes the new value
Put(d, key, value) ==
    IF HasKey(d, key)
    THEN [k \in 1..Len(d) |-> IF d[k][1] = key THEN <<key, value>> ELSE d[k]]
    ELSE Append(d, <<key, value>>)

\* del d[key]
Del(d, key) == SelectSeq(d, LAMBDA pair : pair[1] # key)

(***************************************************************************)
(* parse_buddy_list.  The text it is given is a sequence of lexemes: the   *)
(* prefix "for (;;); ", a JSON document (given by the value json.loads     *)
(* decodes it to) or text that is no JSON.  A decoded value is null, a     *)
(* number, a string (a sequence of characters), a list, or an object (its  *)
(* keys, strings, with their values in order).  common.prettify, called    *)
(* for logging.debug only, is taken to return.                             *)
(***************************************************************************)
Null == [t |-> "null"]
Num(n) == [t |-> "num", n |-> n]
Str(s) == [t |-> "str", s |-> s]
List(items) == [t |-> "list", items |-> items]
Obj(pairs) == [t |-> "obj", pairs |-> pairs]

ms == <<"m", "s">>
buddyList == <<"b", "u", "d", "d", "y", "L", "i", "s", "t">>
lat == <<"l", "a", "t">>

\* raw_json.replace("for (;;); ", "")
valid_raw_json(raw_json) == SelectSeq(raw_json, LAMBDA l : l.lex # "for (;;); ")

\* json.loads: one document and nothing else decodes
json_loads(text) ==
    IF Len(text) = 1 /\ text[1].lex = "json" THEN Return(text[1].value)
    ELSE Raise("JSONDecodeError")

\* key in v, for a string key: a key of an object, an item of a list, a
\* substring of a string; a number and null are no containers
py_in(key, v) ==
    CASE v.t = "obj" -> Return(HasKey(v.pairs, key))
      [] v.t = "list" ->
            Return(\E k \in 1..Len(v.items) :
                        v.items[k].t = "str" /\ v.items[k].s = key)
      [] v.t = "str" -> Return(Contains(v.s, key))
      [] OTHER -> Raise("TypeError")

\* v[key], for a string key
py_getitem(v, key) ==
    IF v.t # "obj" THEN Raise("TypeError")
    ELSE IF HasKey(v.pairs, key) THEN Return(Get(v.pairs, key))
    ELSE Raise("KeyError")

\* v[user], for user a value met while iterating v
py_index(v, user) ==
    CASE v.t = "obj" /\ user.t = "str" -> py_getitem(v, user.s)
      [] v.t = "list" /\ user.t = "num" ->
            IF user.n \in 0..(Len(v.items) - 1)
            THEN Return(v.items[user.n + 1])
            ELSE IF user.n \in (0 - Len(v.items))..(0 - 1)
            THEN Return(v.items[Len(v.items) + user.n + 1])
            ELSE Raise("IndexError")
      [] OTHER -> Raise("TypeError")

\* the values "for x in v" runs over: the keys of an object, the items of a
\* list, the characters of a string
py_iter(v) ==
    CASE v.t = "obj" -> Return([k \in 1..Len(v.pairs) |-> Str(v.pairs[k][1])])
      [] v.t = "list" -> Return(v.items)
      [] v.t = "str" -> Return([k \in 1..Len(v.s) |-> Str(<<v.s[k]>>)])
      [] OTHER -> Raise("TypeError")

\* d.update(pairs) for the pairs of an object
RECURSIVE update_from(_, _)
update_from(d, pairs) ==
    IF pairs = <<>> THEN d
    ELSE update_from(Put(d, Head(pairs)[1], Head(pairs)[2]), Tail(pairs))

\* d.update(sequence), one element of the sequence: it must itself be a
\* sequence of length two, a key and a value.  d keeps the string keys only (no
\* other key is looked up).
update_pair(d, e) ==
    CASE e.t = "list" /\ Len(e.items) = 2 ->
            IF e.items[1].t = "str" THEN Return(Put(d, e.items[1].s, e.items[2]))
            ELSE IF e.items[1].t \in {"num", "null"} THEN Return(d)
            ELSE Raise("TypeError")
      [] e.t = "str" /\ Len(e.s) = 2 -> Return(Put(d, <<e.s[1]>>, Str(<<e.s[2]>>)))
      [] e.t = "obj" /\ Len(e.pairs) = 2 ->
            Return(Put(d, e.pairs[1][1], Str(e.pairs[2][1])))
      [] e.t \in {"num", "null"} -> Raise("TypeError")
      [] OTHER -> Raise("ValueError")

RECURSIVE update_pairs(_, _)
update_pairs(d, elements) ==
    IF elements = <<>> THEN Return(d)
    ELSE Then(update_pair(d, Head(elements)),
              LAMBDA updated : update_pairs(updated, Tail(elements)))

\* flattened_json.update(item)
dict_update(flattened_json, item) ==
    IF item.t = "obj" THEN Return(update_from(flattened_json, item.pairs))
    ELSE Then(py_iter(item),
              LAMBDA elements : update_pairs(flattened_json, elements))

\* the loop over decoded_json["ms"]
RECURSIVE flatten(_, _)
flatten(flattened_json, items) ==
    IF items = <<>> THEN Return(flattened_json)
    ELSE Then(dict_update(flattened_json, Head(items)),
              LAMBDA updated : flatten(updated, Tail(items)))

\* str(datetime.fromtimestamp(n)): the local time of the timestamp n, for n up
\* to the last second of the year 9999, and ValueError or OverflowError beyond
fromtimestamp(n) ==
    IF n <= MaxTimestamp THEN Return(<<"time of", n>>) ELSE Raise("ValueError")

\* times, from lat_found
times_of(lat_found) ==
    IF lat_found.t # "num" THEN Raise("TypeError")
    ELSE IF lat_found.n > 0 - 1
    THEN Then(fromtimestamp(lat_found.n), LAMBDA time : Return(<<time>>))
    ELSE Return(<<>>)

\* the body of the loop over buddy_list, from the test of "lat"
buddy_entry(flattened_buddy_list, user, entry) ==
    Then(py_in(lat, entry),
    LAMBDA found :
        IF ~found THEN Return(flattened_buddy_list)
        ELSE Then(py_getitem(entry, lat),
             LAMBDA lat_found :
                Then(times_of(lat_found),
                LAMBDA times :
                    Return(Put(flattened_buddy_list, user, [times |-> times])))))

\* the loop over buddy_list
RECURSIVE buddy_users(_, _, _)
buddy_users(flattened_buddy_list, buddy_list, users) ==
    IF users = <<>> THEN Return(flattened_buddy_list)
    ELSE Then(Then(py_index(buddy_list, Head(users)),
                   LAMBDA entry :
                        buddy_entry(flattened_buddy_list, Head(users), entry)),
              LAMBDA updated : buddy_users(updated, buddy_list, Tail(users)))

\* the order of the numbers the strings of digits a and b denote
StrLessNumeric(a, b) == IntOf(a) < IntOf(b)

\* a < b for strings of digits: the order of Python's str, character by
\* character, a proper prefix first
StrLess(a, b) ==
    \E i \in 1..Len(b) :
        /\ i - 1 <= Len(a)
        /\ \A k \in 1..(i - 1) : a[k] = b[k]
        /\ (i > Len(a) \/ DigitValue(a[i]) < DigitValue(b[i]))

\* the item x put at its place among the sorted items
insort(x, items) ==
    SelectSeq(items, LAMBDA y : StrLess(y[1].s, x[1].s))
        \o <<x>>
        \o SelectSeq(items, LAMBDA y : ~StrLess(y[1].s, x[1].s))

\* sorted(items), for items with distinct string keys
RECURSIVE sorted(_)
sorted(items) ==
    IF items = <<>> THEN <<>>
    ELSE insort(Head(items), sorted(Tail(items)))

\* OrderedDict(sorted(flattened_buddy_list.items()))
sorted_buddy_list(items) == [k \in 1..Len(items) |-> <<items[k][1].s, items[k][2]>>]

\* from buddy_list = flattened_json["buddyList"]
buddy_list_of(buddy_list) ==
    Then(py_iter(buddy_list),
    LAMBDA users :
        Then(buddy_users(<<>>, buddy_list, users),
        LAMBDA flattened_buddy_list :
            Return(sorted_buddy_list(sorted(flattened_buddy_list)))))

\* from the test of "buddyList"
buddy_flattened(flattened_json) ==
    IF ~HasKey(flattened_json, buddyList)
    THEN Logged(<<>>, "Invalid json returned - not found 'buddyList'")
    ELSE buddy_list_of(Get(flattened_json, buddyList))

\* from the test of "ms"
buddy_decoded(decoded_json) ==
    Then(py_in(ms, decoded_json),
    LAMBDA found :
        IF ~found THEN Logged(<<>>, "Invalid json returned - not found 'ms'")
        ELSE Then(py_getitem(decoded_json, ms),
             LAMBDA messages :
                Then(py_iter(messages),
                LAMBDA items :
                    Then(flatten(<<>>, items), buddy_flattened))))

\* the try block: any exception of json.loads gives the empty OrderedDict
buddy_loaded(outcome) ==
    IF outcome.kind = "raise" THEN Logged(<<>>, "Failed to decode JSON")
    ELSE buddy_decoded(outcome.value)

\* the call, with what it passes to logging.error
buddy_call(raw_json) == buddy_loaded(json_loads(valid_raw_json(raw_json)))

parse_buddy_list(raw_json) == Returned(buddy_call(raw_json))

(***************************************************************************)
(* The page.  body: the elements of the page that carry an id, in document *)
(* order.  A link (an <a> element) has an optional target href (a sequence *)
(* of lexemes), a display text and possibly a role attribute.              *)
(***************************************************************************)
\* find_id taking the last element in document order whose id is one of ids
find_id_last(body, ids) ==
    IF \E k \in 1..Len(body) : body[k].id \in ids
    THEN <<body[CHOOSE k \in 1..Len(body) :
                    /\ body[k].id \in ids
                    /\ \A j \in (k + 1)..Len(body) : body[j].id \notin ids]>>
    ELSE <<>>

\* soup.find(id=ids): the first element in document order whose id is one of ids
find_id(body, ids) ==
    IF \E k \in 1..Len(body) : body[k].id \in ids
    THEN <<body[CHOOSE k \in 1..Len(body) :
                    /\ body[k].id \in ids
                    /\ \A j \in 1..(k - 1) : body[j].id \notin ids]>>
    ELSE <<>>

\* the regular expression ^/.* on an optional target
RootedHref(link) == link.href # <<>> /\ link.href[1] # <<>> /\ link.href[1][1] = "/"

\* the regular expression ^/.*<pat> on an optional target
RootedHrefWith(link, pat) == RootedHref(link) /\ Contains(link.href[1], pat)

\* CollectLinks keeping the text of the first link of a target
RECURSIVE CollectFirstLinks(_, _)
CollectFirstLinks(found, links) ==
    IF links = <<>> THEN found
    ELSE CollectFirstLinks(
            IF HasKey(found, DropFirst(Head(links).href[1], 1)) THEN found
            ELSE Put(found, DropFirst(Head(links).href[1], 1), Head(links).text),
            Tail(links))

\* for link in links: found[link.attrs["href"][1:]] = link.text
RECURSIVE CollectLinks(_, _)
CollectLinks(found, links) ==
    IF links = <<>> THEN found
    ELSE CollectLinks(
            Put(found, DropFirst(Head(links).href[1], 1), Head(links).text),
            Tail(links))

\* the "see more" link of a sub-container: more is the position in links of the
\* first <a> inside the sub-container, 0 when there is none
see_more_of(main_soup) ==
    IF main_soup.more = 0 THEN Return(<<>>)
    ELSE IF main_soup.links[main_soup.more].href = <<>> THEN Raise("KeyError")
    ELSE Return(<<main_soup.links[main_soup.more].href[1]>>)

IsFriendLink(link) == RootedHrefWith(link, <<"fref", "=fr_tab">>)

IsMutualFriendLink(link) == RootedHrefWith(link, <<"?", "fref", "=fr_tab">>)

\* parse_friends_page returning an empty result for a page without container
parse_friends_page_empty(content) ==
    LET main_soup == find_id(content.body, {"objects_container"}) IN
    IF main_soup = <<>>
    THEN Return([content |-> <<<<"friends", <<>>>>>>, see_more_links |-> <<>>])
    ELSE Return([content |-> <<<<"friends",
                    CollectLinks(<<>>, SelectSeq(main_soup[1].links, IsFriendLink))>>>>,
                 see_more_links |-> <<>>])

parse_friends_page(content) ==
    LET main_soup == find_id(content.body, {"objects_container"}) IN
    IF main_soup = <<>> THEN ReturnNone
    ELSE LET friends_found ==
                 CollectLinks(<<>>, SelectSeq(main_soup[1].links, IsFriendLink))
             see_more_links == see_more_of(main_soup[1])
         IN  IF see_more_links.kind = "raise" THEN see_more_links
             ELSE Return([content |-> <<<<"friends", friends_found>>>>,
                          see_more_links |-> see_more_links.value])

parse_mutual_friends_page(content) ==
    LET main_soup == find_id(content.body, {"objects_container"}) IN
    IF main_soup = <<>> THEN ReturnNone
    ELSE LET mutual_friends_found ==
                 CollectLinks(<<>>,
                              SelectSeq(main_soup[1].links, IsMutualFriendLink))
             see_more_links == see_more_of(main_soup[1])
         IN  IF see_more_links.kind = "raise" THEN see_more_links
             ELSE Return([content |-> <<<<"mutual_friends", mutual_friends_found>>>>,
                          see_more_links |-> see_more_links.value])

\* re.match(r'^\d{4}$', link.text)
IsYearText(text) == Len(text) = 4 /\ \A k \in 1..4 : text[k] \in Digits

YearsContainerIds == {"tlFeed", "timelineBody", "m_group_stories_container"}

IsYearLink(link) == link.href # <<>> /\ IsYearText(link.text)

parse_timeline_years_links(content) ==
    LET main_soup == find_id(content.body, YearsContainerIds) IN
    IF main_soup = <<>> THEN Return(<<>>)
    ELSE LET year_links == SelectSeq(main_soup[1].links, IsYearLink) IN
         Return([k \in 1..Len(year_links) |-> year_links[k].href[1]])

(***************************************************************************)
(* parse_reaction_page                                                     *)
(***************************************************************************)
invalid_links == {<<"add_friend.php">>, <<"ufi/reaction">>, <<"home.php?">>}

IsLikerLink(link) ==
    /\ RootedHref(link)
    /\ ~link.role
    /\ DropFirst(link.href[1], 1) # <<>>
    /\ \A invalid_link \in invalid_links :
            ~Contains(DropFirst(link.href[1], 1), invalid_link)

SeeMore == <<"See more">>

IsSeeMoreLink(link) == link.text = SeeMore

\* parse_reaction_page with link_found = "" in place of link_found = None
parse_reaction_page_empty_string(content) ==
    LET main_soup == find_id(content.body, {"objects_container"}) IN
    IF main_soup = <<>> THEN ReturnNone
    ELSE LET liker_links == SelectSeq(main_soup[1].links, IsLikerLink)
             see_more_link_tag == SelectSeq(main_soup[1].links, IsSeeMoreLink)
         IN  Return([likers |-> [k \in 1..Len(liker_links) |->
                                    DropFirst(liker_links[k].href[1], 1)],
                     see_more_link |->
                        IF see_more_link_tag # <<>> /\ see_more_link_tag[1].href # <<>>
                        THEN <<see_more_link_tag[1].href[1]>>
                        ELSE << <<>> >>])

parse_reaction_page(content) ==
    LET main_soup == find_id(content.body, {"objects_container"}) IN
    IF main_soup = <<>> THEN ReturnNone
    ELSE LET liker_links == SelectSeq(main_soup[1].links, IsLikerLink)
             usernames_found ==
                 [k \in 1..Len(liker_links) |-> DropFirst(liker_links[k].href[1], 1)]
             see_more_link_tag == SelectSeq(main_soup[1].links, IsSeeMoreLink)
             link_found ==
                 IF see_more_link_tag # <<>> /\ see_more_link_tag[1].href # <<>>
                 THEN <<see_more_link_tag[1].href[1]>>
                 ELSE <<>>
         IN  Return([likers |-> usernames_found, see_more_link |-> link_found])

(***************************************************************************)
(* parse_likes_page.  The container holds an optional h2 (its text) and    *)
(* the h3/h4 headings in document order, each with its text and the links  *)
(* found under its parent_tag.                                             *)
(***************************************************************************)
Whitespace == {" ", "\n"}

\* str.strip()
RECURSIVE LStrip(_)
LStrip(s) ==
    IF s # <<>> /\ Head(s) \in Whitespace THEN LStrip(Tail(s)) ELSE s

RECURSIVE RStrip(_)
RStrip(s) ==
    IF s # <<>> /\ s[Len(s)] \in Whitespace
    THEN RStrip(SubSeq(s, 1, Len(s) - 1))
    ELSE s

Strip(s) == RStrip(LStrip(s))

Like == <<"Like">>

\* the loop over link_soup: acc is <<result, see_more_links>>
RECURSIVE likes_links(_, _, _)
likes_links(acc, category_name, link_soup) ==
    IF link_soup = <<>> THEN acc
    ELSE LET link == Head(link_soup) IN
         likes_links(
            IF Strip(link.text) = SeeMore
            THEN <<acc[1], Append(acc[2], link.href[1])>>
            ELSE IF link.text # Like
            THEN <<Put(acc[1], category_name,
                       Put(Get(acc[1], category_name),
                           DropFirst(link.href[1], 1), Strip(link.text))),
                   acc[2]>>
            ELSE acc,
            category_name, Tail(link_soup))

\* the loop over category_soup
RECURSIVE likes_categories(_, _, _)
likes_categories(acc, main_category, category_soup) ==
    IF category_soup = <<>> THEN acc
    ELSE LET category == Head(category_soup)
             category_name ==
                 IF main_category # <<>> /\ main_category[1] # <<>>
                 THEN main_category[1]
                 ELSE Strip(category.text)
         IN  likes_categories(
                likes_links(<<Put(acc[1], category_name, <<>>), acc[2]>>,
                            category_name,
                            SelectSeq(category.links, RootedHref)),
                main_category, Tail(category_soup))

parse_likes_page(content) ==
    LET main_soup == find_id(content.body, {"objects_container"}) IN
    IF main_soup = <<>> THEN ReturnNone
    ELSE LET acc == likes_categories(<<<<>>, <<>>>>, main_soup[1].h2,
                                     main_soup[1].categories)
         IN  Return([content |-> acc[1], see_more_links |-> acc[2]])

(***************************************************************************)
(* parse_about_page.  The page holds an optional title, an optional        *)
(* timeline link (lst_user is the piece of its target between the first    *)
(* and the second "%3A"), the div elements carrying a title attribute      *)
(* (titled: tag -> text, the text being what is left of the div's text     *)
(* once the tag, the line feeds and " · Edit" are removed), the alt text   *)
(* of the first image of div#work and div#education, and the relationship  *)
(* choices that occur in the text of div#relationship.                     *)
(***************************************************************************)
\* the list tags, each with tag.replace(" ", "_").lower()
tags ==
    << <<"AIM", "aim">>, <<"Address", "address">>, <<"BBM", "bbm">>,
       <<"Birth Name", "birth_name">>, <<"Birthday", "birthday">>,
       <<"Facebook", "facebook">>, <<"Foursquare", "foursquare">>,
       <<"Gadu-Gadu", "gadu-gadu">>, <<"Gender", "gender">>, <<"ICQ", "icq">>,
       <<"Instagram", "instagram">>, <<"Interested in", "interested_in">>,
       <<"Languages", "languages">>, <<"LinkedIn", "linkedin">>,
       <<"Maiden Name", "maiden_name">>, <<"Mobile", "mobile">>,
       <<"Nickname", "nickname">>, <<"Political Views", "political_views">>,
       <<"Religious views", "religious_views">>, <<"Skype", "skype">>,
       <<"Snapchat", "snapchat">>, <<"Twitter", "twitter">>, <<"VK", "vk">>,
       <<"Websites", "websites">>,
       <<"Windows Live Messenger", "windows_live_messenger">>,
       <<"Year of birth", "year_of_birth">> >>

institution_tags == <<"work", "education">>

relationship_choices ==
    <<"In a relationship", "Engaged", "Married", "In a civil partnership",
      "In a domestic partnership", "In an open relationship",
      "It's complicated", "Separated", "Divorced", "Widowed", "Single">>

\* the loop over tags
RECURSIVE about_tags(_, _, _)
about_tags(user_info, titled, rest) ==
    IF rest = <<>> THEN user_info
    ELSE about_tags(
            IF Head(rest)[1] \in DOMAIN titled
            THEN Put(user_info, Head(rest)[2], titled[Head(rest)[1]])
            ELSE user_info,
            titled, Tail(rest))

\* the decomposition of parsed_birthday = user_info["birthday"]
split_birthday(user_info, parsed_birthday, pieces) ==
    IF Count(parsed_birthday, " ") # 2
    THEN Del(Put(user_info, "day_and_month_of_birth", parsed_birthday),
             "birthday")
    ELSE Put(Put(user_info, "day_and_month_of_birth",
                 Join(SubSeq(pieces, 1, 2), <<" ">>)),
             "year_of_birth", pieces[Len(pieces)])

about_birthday(user_info) ==
    IF ~HasKey(user_info, "birthday") THEN user_info
    ELSE split_birthday(user_info, Get(user_info, "birthday"),
                        Split(Get(user_info, "birthday"), <<" ">>))

\* user_info["year_of_birth"] = int(user_info["year_of_birth"])
about_year(user_info) ==
    IF ~HasKey(user_info, "year_of_birth") THEN Return(user_info)
    ELSE Then(int(Get(user_info, "year_of_birth")),
              LAMBDA year : Return(Put(user_info, "year_of_birth", year)))

\* the loop over institution_tags
RECURSIVE about_institutions(_, _, _)
about_institutions(user_info, institutions, rest) ==
    IF rest = <<>> THEN user_info
    ELSE about_institutions(
            IF Head(rest) \in DOMAIN institutions
            THEN Put(user_info, Head(rest), institutions[Head(rest)])
            ELSE user_info,
            institutions, Tail(rest))

\* the first choice of relationship_choices that occurs in the text
about_relationship(user_info, relationship) ==
    IF \E k \in 1..Len(relationship_choices) : relationship_choices[k] \in relationship
    THEN Put(user_info, "relationship",
             relationship_choices[
                CHOOSE k \in 1..Len(relationship_choices) :
                    /\ relationship_choices[k] \in relationship
                    /\ \A j \in 1..(k - 1) : relationship_choices[j] \notin relationship])
    ELSE user_info

\* user_info: the record with the name, when the page has a title
named_of(title) == IF title = <<>> THEN <<>> ELSE Put(<<>>, "name", title[1])

parse_about_page(content) ==
    IF content.timeline_tag = <<>> THEN ReturnNone
    ELSE Then(int(content.timeline_tag[1].lst_user),
         LAMBDA user_id :
            Then(about_year(about_birthday(
                    about_tags(Put(named_of(content.title), "id", user_id),
                               content.titled, tags))),
            LAMBDA user_info :
                Return(about_relationship(
                          about_institutions(user_info, content.institutions,
                                             institution_tags),
                          content.relationship))))

(***************************************************************************)
(* parse_post.  An article holds its children in document order (each a    *)
(* string or a tag, a tag possibly carrying data-ft, with the targets of   *)
(* the elements under it that have an href), and what soup.find gets from  *)
(* anywhere in it: the first abbr (its text), the first element whose id   *)
(* matches like_<digits> (the digits, and the text of its link carrying    *)
(* aria-label "reaction"), the first h3 (its children), the first link     *)
(* whose string matches "<digit>+ Comment" (the text before " Comment"),   *)
(* the first link whose string is "Full Story" (its optional target).      *)
(* The content string of the record is not modelled.                       *)
(***************************************************************************)
ProfilePhp == <<"/", "profile.php">>
ProfilePhpId == <<"/", "profile.php", "?", "id=">>
Amp == <<"&">>
AmpRefid18 == <<"&", "refid=18">>
QRefid18 == <<"?", "refid=18">>
QLst == <<"?", "lst">>
AmpFref == <<"&", "fref">>
AmpLst == <<"&", "lst">>

\* strip_suffix stopping at the first marker that occurs
strip_suffix_first_match(link_found) ==
    IF Contains(link_found, AmpRefid18) THEN SplitFirst(link_found, AmpRefid18)
    ELSE IF Contains(link_found, QRefid18) THEN SplitFirst(link_found, QRefid18)
    ELSE IF Contains(link_found, QLst) THEN SplitFirst(link_found, QLst)
    ELSE IF Contains(link_found, AmpFref) THEN SplitFirst(link_found, AmpFref)
    ELSE SplitFirst(link_found, AmpLst)

\* the five split(...)[0] of the participant scan, one after the other
strip_suffix(link_found) ==
    SplitFirst(
        SplitFirst(
            SplitFirst(
                SplitFirst(
                    SplitFirst(link_found, AmpRefid18),
                    QRefid18),
                QLst),
            AmpFref),
        AmpLst)

\* add_stripped without the test that id_found differs from link_found
add_unchanged(participants_found, link_found, id_found) ==
    IF /\ \A k \in 1..Len(participants_found) : participants_found[k] # id_found
       /\ ~Contains(id_found, <<"/", "photos", "/">>)
       /\ ~Contains(id_found, <<"story.php", "?">>)
    THEN Append(participants_found, id_found)
    ELSE participants_found

\* the test before participants_found.append(id_found)
add_stripped(participants_found, link_found, id_found) ==
    IF /\ id_found # link_found
       /\ \A k \in 1..Len(participants_found) : participants_found[k] # id_found
       /\ ~Contains(id_found, <<"/", "photos", "/">>)
       /\ ~Contains(id_found, <<"story.php", "?">>)
    THEN Append(participants_found, id_found)
    ELSE participants_found

\* link_found.split("/profile.php?id=")[1].split("&")[0]
profile_id(pieces) ==
    IF Len(pieces) < 2 THEN Raise("IndexError")
    ELSE Return(SplitFirst(pieces[2], Amp))

\* scan_link looking for "/profile.php" in the whole target
scan_whole_link(participants_found, link_found) ==
    IF Contains(<<"/">> \o link_found, ProfilePhp)
    THEN Then(profile_id(Split(<<"/">> \o link_found, ProfilePhpId)),
              LAMBDA ids : Return(Append(participants_found, ids)))
    ELSE Return(add_stripped(participants_found, link_found,
                             strip_suffix(link_found)))

\* the body of "for link in link_soup", on link_found = link.attrs["href"][1:]
scan_link(participants_found, link_found) ==
    IF Contains(link_found, ProfilePhp)
    THEN Then(profile_id(Split(link_found, ProfilePhpId)),
              LAMBDA ids : Return(Append(participants_found, ids)))
    ELSE Return(add_stripped(participants_found, link_found,
                             strip_suffix(link_found)))

\* child.find_all(href=re.compile("^/.*"))
RootedTarget(href) == href # <<>> /\ href[1] = "/"

RECURSIVE scan_links(_, _)
scan_links(participants_found, link_soup) ==
    IF link_soup = <<>> THEN Return(participants_found)
    ELSE Then(scan_link(participants_found, DropFirst(Head(link_soup), 1)),
              LAMBDA found : scan_links(found, Tail(link_soup)))

\* "for child in soup.children", up to the first child carrying data-ft
RECURSIVE scan_children(_, _)
scan_children(participants_found, children) ==
    IF children = <<>> THEN Return(participants_found)
    ELSE IF ~Head(children).tag
    THEN scan_children(participants_found, Tail(children))
    ELSE IF Head(children).data_ft THEN Return(participants_found)
    ELSE Then(scan_links(participants_found,
                         SelectSeq(Head(children).hrefs, RootedTarget)),
              LAMBDA found : scan_children(found, Tail(children)))

(***************************************************************************)
(* The scan of the children of the h3 element.  A child is a string        *)
(* (name "string") or a tag (name "a", "span" or another tag name) with    *)
(* its text (lexemes: words and blanks), its own target when it has one,   *)
(* and the first <a> element under it (child.find('a')).                   *)
(***************************************************************************)
\* str.lower() on the words the scan looks for
Lower(w) ==
    CASE w \in {"With", "WITH"} -> "with"
      [] w \in {"And", "AND"} -> "and"
      [] w \in {"At", "AT"} -> "at"
      [] OTHER -> w

LowerAll(text) == [k \in 1..Len(text) |-> Lower(text[k])]

\* text.strip().lower().split(" ")
words_of(text) == Split(LowerAll(Strip(text)), <<" ">>)

\* w in words
HasWord(words, w) == \E k \in 1..Len(words) : words[k] = <<w>>

\* the element whose text and target are read: child.find('a') of a tag; of a
\* string, find is str.find and yields a number
found_a(child) == IF child.name = "string" THEN <<>> ELSE child.a

\* child if child.name == "a" else child.find('a')
with_element_of(child) ==
    IF child.name = "a"
    THEN <<[text |-> child.text, href |-> child.href]>>
    ELSE found_a(child)

\* {'name': element.text, 'url': element.attrs['href'].split('&')[0]}
target_of(element) ==
    IF element = <<>> THEN Raise("AttributeError")
    ELSE IF element[1].href = <<>> THEN Raise("KeyError")
    ELSE Return([name |-> element[1].text,
                 url |-> SplitFirst(element[1].href[1], Amp)])

\* "if with_exist == True:"
header_with(st, child) ==
    IF ~st.with_exist THEN Return(st)
    ELSE Then(target_of(with_element_of(child)),
              LAMBDA target : Return([st EXCEPT !.withs = Append(@, target),
                                                !.with_exist = FALSE]))

\* "if location_exist == True:"
header_location(st, child) ==
    IF ~st.location_exist THEN Return(st)
    ELSE Then(target_of(found_a(child)),
              LAMBDA target : Return([st EXCEPT !.location = <<target>>,
                                                !.location_exist = FALSE]))

\* the tests of the words of the child's text
header_words(st, words) ==
    [st EXCEPT
        !.with_exist = IF HasWord(words, "with") \/ HasWord(words, "and")
                       THEN TRUE ELSE @,
        !.location_exist = IF HasWord(words, "at") THEN TRUE ELSE @]

\* one child of the h3 element, past the test for span
header_child(st, child) ==
    Then(Then(header_with(st, child),
              LAMBDA st1 : header_location(st1, child)),
         LAMBDA st2 : Return(header_words(st2, words_of(child.text))))

\* the scan that goes on through a span child
RECURSIVE header_scan_through(_, _)
header_scan_through(st, children) ==
    IF children = <<>> THEN Return(st)
    ELSE Then(header_child(st, Head(children)),
              LAMBDA st1 : header_scan_through(st1, Tail(children)))

\* "for child in h3_element.children"
RECURSIVE header_scan(_, _)
header_scan(st, children) ==
    IF children = <<>> THEN Return(st)
    ELSE IF Head(children).name = "span" THEN Return(st)
    ELSE Then(header_child(st, Head(children)),
              LAMBDA st1 : header_scan(st1, Tail(children)))

header_start ==
    [withs |-> <<>>, location |-> <<>>, with_exist |-> FALSE,
     location_exist |-> FALSE]

\* core.model.parse_date, written str(...): the normalized timestamp of a date text
parse_date(date_org) == <<"timestamp of", date_org>>

Comma == ","

\* int(tag.text.replace(",", "")) of an optional tag, 0 without the tag
count_of(tag) == IF tag = <<>> THEN Return(0) ELSE int(Remove(tag[1], Comma))

\* the target of the "Full Story" link, "" without the link or without its href
story_link_of(full_story_soup) ==
    IF full_story_soup # <<>> /\ full_story_soup[1] # <<>>
    THEN full_story_soup[1][1]
    ELSE <<>>

\* the record parse_post returns
post_record(article, participants_found, location, like_count, comment_count) ==
    [post_id |-> IntOf(article.like[1].n),
     location |-> location,
     participants |-> participants_found,
     date |-> parse_date(article.abbr[1]),
     date_org |-> article.abbr[1],
     like_count |-> like_count,
     comment_count |-> comment_count,
     story_link |-> story_link_of(article.full_story)]

\* post_of reading the children of the h3 element before it looks for the date
\* element and the id element
post_of_header_first(article, participants_found) ==
    IF article.h3 = <<>> THEN Raise("AttributeError")
    ELSE IF article.abbr = <<>> THEN ReturnNone
    ELSE IF article.like = <<>> THEN ReturnNone
    ELSE Then(header_scan(header_start, article.h3[1]),
         LAMBDA header :
            Then(count_of(article.like[1].reaction),
            LAMBDA like_count :
                Then(count_of(article.comment),
                LAMBDA comment_count :
                    Return(post_record(article, participants_found,
                                       header.location, like_count,
                                       comment_count)))))

\* parse_post from "date_tag = soup.find("abbr")" on
post_of(article, participants_found) ==
    IF article.abbr = <<>> THEN ReturnNone
    ELSE IF article.like = <<>> THEN ReturnNone
    ELSE IF article.h3 = <<>> THEN Raise("AttributeError")
    ELSE Then(header_scan(header_start, article.h3[1]),
         LAMBDA header :
            Then(count_of(article.like[1].reaction),
            LAMBDA like_count :
                Then(count_of(article.comment),
                LAMBDA comment_count :
                    Return(post_record(article, participants_found,
                                       header.location, like_count,
                                       comment_count)))))

\* soup: the optional article
parse_post(soup) ==
    IF soup = <<>> THEN ReturnNone
    ELSE Then(scan_children(<<>>, soup[1].children),
              LAMBDA participants_found : post_of(soup[1], participants_found))

(***************************************************************************)
(* parse_timeline_page.  show_more: the first link of the page whose       *)
(* string is "Show more" or "See more posts" (its optional target).        *)
(***************************************************************************)
TimelineContainerIds ==
    <<"tlFeed", "timelineBody", "m_group_stories_container",
      "structured_composer_async_container">>

Range(s) == {s[k] : k \in 1..Len(s)}

\* keep_post keeping the first record of a post_id
keep_first_post(articles_found, post) ==
    IF post.kind = "value" /\ ~HasKey(articles_found, post.value.post_id)
    THEN Append(articles_found, <<post.value.post_id, post.value>>)
    ELSE articles_found

\* the assignment that moves an existing key to the end of the mapping
keep_post_at_end(articles_found, post) ==
    IF post.kind = "value"
    THEN Append(Del(articles_found, post.value.post_id),
                <<post.value.post_id, post.value>>)
    ELSE articles_found

\* "if post: articles_found[post["post_id"]] = post"
keep_post(articles_found, post) ==
    IF post.kind = "value"
    THEN Put(articles_found, post.value.post_id, post.value)
    ELSE articles_found

\* "for article in articles_soup": post is parse_post(article) of the first
RECURSIVE timeline_articles(_, _)
timeline_article(articles_found, post, rest) ==
    IF post.kind = "raise" THEN post
    ELSE timeline_articles(keep_post(articles_found, post), rest)

timeline_articles(articles_found, articles_soup) ==
    IF articles_soup = <<>> THEN Return(articles_found)
    ELSE timeline_article(articles_found, parse_post(<<Head(articles_soup)>>),
                          Tail(articles_soup))

\* the target of the "Show more" link, "" without the link or without its href
show_more_of(show_more_link_tag) ==
    IF show_more_link_tag # <<>> /\ show_more_link_tag[1] # <<>>
    THEN show_more_link_tag[1][1]
    ELSE <<>>

timeline_of(content, main_soup) ==
    IF main_soup = <<>> THEN ReturnNone
    ELSE Then(timeline_articles(<<>>, main_soup[1].articles),
              LAMBDA articles_found :
                Return([articles |-> articles_found,
                        show_more_link |-> show_more_of(content.show_more)]))

parse_timeline_page(content) ==
    timeline_of(content, find_id(content.body, Range(TimelineContainerIds)))

(***************************************************************************)
(* The pages the extractors are applied to.                                *)
(***************************************************************************)
Element(id, links, more, h2, categories, articles) ==
    [id |-> id, links |-> links, more |-> more, h2 |-> h2,
     categories |-> categories, articles |-> articles]

Page(login_input, unavailable, body, show_more) ==
    [login_input |-> login_input, unavailable |-> unavailable, body |-> body,
     show_more |-> show_more]

Link(href, text, role) == [href |-> href, text |-> text, role |-> role]

FriendLink ==
    Link(<< <<"/", "username1", "?", "fref", "=fr_tab">> >>, <<"Mark">>, FALSE)
SeeMoreLink ==
    Link(<< <<"/", "ufi/reaction", "/", "link">> >>, SeeMore, FALSE)

\* a friend, the same friend under another text, a "See more" link, a year
\* link, a link without target
LinkSamples ==
    {FriendLink, Link(FriendLink.href, <<"Mark again">>, FALSE), SeeMoreLink,
     Link(<< <<"link1">> >>, <<"2", "0", "1", "0">>, FALSE),
     Link(<<>>, <<"Deleted user">>, FALSE)}

\* the contents of a container of links: the links, and the position of the
\* first link of its "more" sub-container (the last link, or none)
LinkContents ==
    {<<links, more>> \in SeqsUpTo(LinkSamples, MaxLinks) \X (0..MaxLinks) :
        more \in {0, Len(links)}}

Classifications == BOOLEAN \X UnavailablePlaces

ObjectsIds == {"objects_container", "root"}

\* pages of links: every element holds the same links
LinkPages(ids) ==
    {Page(c[1], c[2],
          [k \in 1..Len(idseq) |-> Element(idseq[k], lc[1], lc[2], <<>>, <<>>, <<>>)],
          <<>>) :
        c \in Classifications, idseq \in SeqsUpTo(ids, MaxElements),
        lc \in LinkContents}

\* a liker, a "See more" link, a button (role), a link to "/"
ReactionLinkSamples ==
    {FriendLink, SeeMoreLink,
     Link(<< <<"/", "ufi/badLink">> >>, <<"All 2">>, TRUE),
     Link(<< <<"/">> >>, <<"Home">>, FALSE)}

ReactionPages ==
    {Page(c[1], c[2],
          [k \in 1..Len(idseq) |-> Element(idseq[k], links, 0, <<>>, <<>>, <<>>)],
          <<>>) :
        c \in Classifications, idseq \in SeqsUpTo(ObjectsIds, MaxElements),
        links \in SeqsUpTo(ReactionLinkSamples, MaxLinks)}

Category(name, text, links) == [name |-> name, text |-> text, links |-> links]

CategorySamples ==
    {Category("h4", <<"Music", " ">>,
              <<Link(<< <<"/", "cat1Link1">> >>, <<"Item 1-1">>, FALSE),
                Link(<< <<"/", "cat1BadLink1">> >>, Like, FALSE),
                Link(<< <<"/", "cat1SeeMoreLink">> >>, <<"\n", "See more">>,
                     FALSE)>>),
     Category("h3", <<"TV Programmes">>, <<FriendLink>>)}

LikesPages ==
    {Page(c[1], c[2],
          [k \in 1..Len(idseq) |-> Element(idseq[k], <<>>, 0, h2, categories, <<>>)],
          <<>>) :
        c \in Classifications, idseq \in SeqsUpTo(ObjectsIds, MaxElements),
        h2 \in {<<>>, << <<"Films">> >>},
        categories \in SeqsUpTo(CategorySamples, MaxCategories)}

Article(children, abbr, like, h3, comment, full_story) ==
    [children |-> children, abbr |-> abbr, like |-> like, h3 |-> h3,
     comment |-> comment, full_story |-> full_story]

Child(tag, data_ft, hrefs) == [tag |-> tag, data_ft |-> data_ft, hrefs |-> hrefs]

LikeSpan(n, reaction) == [n |-> n, reaction |-> reaction]

HeaderChild(name, text, href, a) ==
    [name |-> name, text |-> text, href |-> href, a |-> a]

DigitOf(k) == <<"0", "1", "2", "3", "4", "5", "6", "7", "8", "9">>[k + 1]

Date1 == <<"13 May 2008 at 10:02">>
Date2 == <<"13 May 2008 at 10:25">>

MetadataBlock == Child(TRUE, TRUE, <<>>)

\* the article of the element at position k of a timeline page: a post whose
\* id is k, the same without h3 element, or the same without date element
ArticleAt(k, kind) ==
    Article(<<MetadataBlock>>,
            IF kind = "no abbr" THEN <<>> ELSE <<Date1>>,
            <<LikeSpan(<<DigitOf(k)>>, <<>>)>>,
            IF kind = "no h3" THEN <<>> ELSE << <<>> >>,
            <<>>, <<>>)

TimelineIds == Range(TimelineContainerIds) \cup {"root"}

TimelinePages ==
    {Page(c[1], c[2],
          [k \in 1..Len(idseq) |->
              Element(idseq[k], <<>>, 0, <<>>, <<>>, <<ArticleAt(k, kind)>>)],
          show_more) :
        c \in Classifications, idseq \in SeqsUpTo(TimelineIds, MaxElements),
        kind \in {"post", "no h3", "no abbr"},
        show_more \in {<<>>, << << <<"/", "show_more_link">> >> >>}}

YearsIds == {"tlFeed", "m_group_stories_container", "root"}

AboutPage(login_input, unavailable, title, timeline_tag, titled, work, rel) ==
    [login_input |-> login_input, unavailable |-> unavailable, title |-> title,
     timeline_tag |-> timeline_tag, titled |-> titled,
     institutions |-> work, relationship |-> rel]

TimelineTag(lst_user) == [lst_user |-> lst_user]

TimelineTagSamples ==
    {<<>>, <<TimelineTag(<<"4">>)>>, <<TimelineTag(<<"b", "?v=timeline">>)>>}

TitledSamples ==
    {<<>>,
     [t \in {"Birthday"} |-> <<"1", "4", " ", "M", " ", "1", "9">>],
     [t \in {"Gender", "Year of birth"} |->
        IF t = "Gender" THEN <<"M">> ELSE <<"1", "9">>]}

AboutPages ==
    {AboutPage(c[1], c[2], title, timeline_tag, titled, institutions, relationship) :
        c \in Classifications, title \in {<<>>, << <<"Mark">> >>},
        timeline_tag \in TimelineTagSamples, titled \in TitledSamples,
        institutions \in {<<>>, [t \in {"work"} |-> <<"1st work">>]},
        relationship \in {{}, {"Married", "Single"}}}

ClassifiedPages ==
    {Page(c[1], c[2], <<>>, <<>>) : c \in Classifications}

(***************************************************************************)
(* The calls.  Each action is one call of one function on one page; what   *)
(* the function logs with logging.error is the classification of the page  *)
(* whose container it did not find.                                        *)
(***************************************************************************)
Init ==
    /\ call = "none"
    /\ input = <<>>
    /\ result = <<>>
    /\ log = <<>>

error_log(content, main_soup) ==
    IF main_soup = <<>> THEN <<detect_error_type(content)>> ELSE <<>>

DetectErrorType(pages) ==
    /\ call = "none"
    /\ \E content \in pages :
        /\ call' = "detect_error_type"
        /\ input' = content
        /\ result' = Return(detect_error_type(content))
        /\ log' = <<>>

ParseAboutPage(pages) ==
    /\ call = "none"
    /\ \E content \in pages :
        /\ call' = "parse_about_page"
        /\ input' = content
        /\ result' = parse_about_page(content)
        /\ log' = error_log(content, content.timeline_tag)

ParseFriendsPage(pages) ==
    /\ call = "none"
    /\ \E content \in pages :
        /\ call' = "parse_friends_page"
        /\ input' = content
        /\ result' = parse_friends_page(content)
        /\ log' = error_log(content, find_id(content.body, {"objects_container"}))

ParseLikesPage(pages) ==
    /\ call = "none"
    /\ \E content \in pages :
        /\ call' = "parse_likes_page"
        /\ input' = content
        /\ result' = parse_likes_page(content)
        /\ log' = error_log(content, find_id(content.body, {"objects_container"}))

ParseMutualFriendsPage(pages) ==
    /\ call = "none"
    /\ \E content \in pages :
        /\ call' = "parse_mutual_friends_page"
        /\ input' = content
        /\ result' = parse_mutual_friends_page(content)
        /\ log' = error_log(content, find_id(content.body, {"objects_container"}))

ParseTimelineYearsLinks(pages) ==
    /\ call = "none"
    /\ \E content \in pages :
        /\ call' = "parse_timeline_years_links"
        /\ input' = content
        /\ result' = parse_timeline_years_links(content)
        /\ log' = error_log(content, find_id(content.body, YearsContainerIds))

ParseTimelinePage(pages) ==
    /\ call = "none"
    /\ \E content \in pages :
        /\ call' = "parse_timeline_page"
        /\ input' = content
        /\ result' = parse_timeline_page(content)
        /\ log' = error_log(content,
                            find_id(content.body, Range(TimelineContainerIds)))

ParseReactionPage(pages) ==
    /\ call = "none"
    /\ \E content \in pages :
        /\ call' = "parse_reaction_page"
        /\ input' = content
        /\ result' = parse_reaction_page(content)
        /\ log' = error_log(content, find_id(content.body, {"objects_container"}))

\* the extractors and the classifier, on pages with and without their container
Next ==
    \/ DetectErrorType(ClassifiedPages)
    \/ ParseAboutPage(AboutPages)
    \/ ParseFriendsPage(LinkPages(ObjectsIds))
    \/ ParseLikesPage(LikesPages)
    \/ ParseMutualFriendsPage(LinkPages(ObjectsIds))
    \/ ParseTimelineYearsLinks(LinkPages(YearsIds))
    \/ ParseTimelinePage(TimelinePages)
    \/ ParseReactionPage(ReactionPages)

Spec == Init /\ [][Next]_vars

(***************************************************************************)
(* The articles parse_post is applied to.                                  *)
(***************************************************************************)
\* the metadata block, a string, and tags over a user and a profile link, over
\* a link without marker, over a profile link without "?id=", over a link to
\* /profile.php itself
ChildSamples ==
    {MetadataBlock, Child(FALSE, FALSE, <<>>),
     Child(TRUE, FALSE,
           << <<"/", "username2", "?", "refid=18">>,
              <<"/", "groups", "/", "profile.php", "?", "id=", "3333", "&",
                "refid=18">> >>),
     Child(TRUE, FALSE, << <<"/", "link3">> >>),
     Child(TRUE, FALSE, << <<"/", "groups", "/", "profile.php">> >>),
     Child(TRUE, FALSE,
           << <<"/", "profile.php", "?", "id=", "3333", "&", "refid=18">> >>)}

\* <h3><a>User</a> is at <strong><a>Place</a></strong></h3>
LocationHeader ==
    <<HeaderChild("a", <<"User">>, << <<"/", "user">> >>, <<>>),
      HeaderChild("string", <<" ", "is", " ", "at", " ">>, <<>>, <<>>),
      HeaderChild("strong", <<"Place">>, <<>>,
                  <<[text |-> <<"Place">>,
                     href |-> << <<"/", "place", "&", "refid=17">> >>]>>)>>

HeaderSamples == {<<>>, << <<>> >>, <<LocationHeader>>}

\* no id element, or like_151 without reaction link, with "10", with "1K"
LikeSamples ==
    {<<>>} \cup {<<LikeSpan(<<"1", "5", "1">>, r)>> :
                    r \in {<<>>, << <<"1", "0">> >>, << <<"1", "K">> >>}}

CommentSamples == {<<>>, << <<"1", "2">> >>, << <<"2", ",", "7", "4", "6">> >>}

FullStorySamples == {<<>>, << <<>> >>, << << <<"https://m.facebook.com/fu">> >> >>}

Articles ==
    {Article(children, abbr, like, h3, comment, full_story) :
        children \in SeqsUpTo(ChildSamples, MaxChildren),
        abbr \in {<<>>, <<Date1>>}, like \in LikeSamples, h3 \in HeaderSamples,
        comment \in CommentSamples, full_story \in FullStorySamples}

Soups == {<<>>} \cup {<<article>> : article \in Articles}

\* a post of a timeline with its id and its date, and the articles without
\* header element and without date element
Post(n, date_org) ==
    Article(<<MetadataBlock>>, <<date_org>>, <<LikeSpan(<<DigitOf(n)>>, <<>>)>>,
            << <<>> >>, <<>>, <<>>)

TimelineArticleSamples ==
    {Post(n, date_org) : n \in 1..2, date_org \in {Date1, Date2}}
        \cup {ArticleAt(1, "no h3"), ArticleAt(2, "no abbr")}

PostPages ==
    {Page(FALSE, "absent",
          <<Element("tlFeed", <<>>, 0, <<>>, <<>>, articles)>>, <<>>) :
        articles \in SeqsUpTo(TimelineArticleSamples, MaxArticles)}

ParsePost(soups) ==
    /\ call = "none"
    /\ \E soup \in soups :
        /\ call' = "parse_post"
        /\ input' = soup
        /\ result' = parse_post(soup)
        /\ log' = <<>>

\* parse_post on articles, and parse_timeline_page on pages of several articles
NextPost ==
    \/ ParsePost(Soups)
    \/ ParseTimelinePage(PostPages)

SpecPost == Init /\ [][NextPost]_vars


(***************************************************************************)
(* The link targets the suffix stripping is applied to: every sequence of  *)
(* at most MaxTargetLen of the lexemes the markers are made of.            *)
(***************************************************************************)
Targets ==
    SeqsUpTo({"username", "&", "?", "refid=18", "lst", "fref"}, MaxTargetLen)

StripSuffix(targets) ==
    /\ call = "none"
    /\ \E link_found \in targets :
        /\ call' = "strip_suffix"
        /\ input' = link_found
        /\ result' = Return(strip_suffix(link_found))
        /\ log' = <<>>

\* the suffix stripping of parse_post alone, on every target
NextStrip == StripSuffix(Targets)

SpecStrip == Init /\ [][NextStrip]_vars

(***************************************************************************)
(* The steps of the participant scan: a link target without its leading    *)
(* "/" (any sequence of at most MaxTargetLen lexemes among a name and the  *)
(* pieces of three markers, a photo target, a story target, a profile      *)
(* target), met when participants_found is empty or holds an identifier.   *)
(***************************************************************************)
ScanTargets ==
    SeqsUpTo({"username", "&", "?", "refid=18", "lst"}, MaxTargetLen)
        \cup {<<"page", "/", "photos", "/", "123", "?", "refid=18">>,
              <<"story.php", "?", "story_fbid=123", "&", "refid=18">>,
              <<"groups", "/", "profile.php", "?", "id=", "3333", "&", "refid=18">>}

ScanLink(targets) ==
    /\ call = "none"
    /\ \E link_found \in targets,
          participants_found \in {<<>>, << <<"username">> >>, << <<"username", "?">> >>} :
        /\ call' = "scan_link"
        /\ input' = [participants_found |-> participants_found,
                     link_found |-> link_found]
        /\ result' = scan_link(participants_found, link_found)
        /\ log' = <<>>

\* one step of the participant scan of parse_post
NextScan == ScanLink(ScanTargets)

SpecScan == Init /\ [][NextScan]_vars

(***************************************************************************)
(* The articles of the header scan: a post with its metadata block, its    *)
(* date and its id whose h3 element holds any sequence of at most          *)
(* MaxHeaderLen children among strings with and without the words the scan *)
(* looks for, a link, elements holding a link (one whose text holds one of *)
(* the words), and a span.                                                 *)
(***************************************************************************)
HeaderChildren ==
    {HeaderChild("string", <<" ", "is", " ", "At", " ">>, <<>>, <<>>),
     HeaderChild("string", <<" ", "is", " ", "with", " ">>, <<>>, <<>>),
     HeaderChild("string", <<" ", "and", " ">>, <<>>, <<>>),
     HeaderChild("string", <<" ", "was", " ", "attending", ".">>, <<>>, <<>>),
     HeaderChild("a", <<"User">>, << <<"/", "user", "?", "fref=nf", "&", "refid=17">> >>, <<>>),
     HeaderChild("strong", <<"Place">>, <<>>,
                 <<[text |-> <<"Place">>,
                    href |-> << <<"/", "place", "&", "refid=17", "&", "x">> >>]>>),
     HeaderChild("string", <<" ", "with", " ", "friends", " ", "at", " ">>, <<>>, <<>>),
     HeaderChild("strong", <<"Cafe", " ", "at", " ", "Park">>, <<>>,
                 <<[text |-> <<"Cafe", " ", "at", " ", "Park">>,
                    href |-> << <<"/", "cafe", "&", "refid=17">> >>]>>),
     HeaderChild("span", <<" ", "at", " ", "Home">>, <<>>,
                 <<[text |-> <<"Home">>, href |-> << <<"/", "home">> >>]>>)}

HeaderSoups ==
    {<<Article(<<MetadataBlock>>, <<Date1>>, <<LikeSpan(<<"1", "5", "1">>, <<>>)>>,
               <<h3>>, <<>>, <<>>)>> : h3 \in SeqsUpTo(HeaderChildren, MaxHeaderLen)}

\* parse_post on the articles of the header scan
NextHeader == ParsePost(HeaderSoups)

SpecHeader == Init /\ [][NextHeader]_vars

(***************************************************************************)
(* The about pages of the birthday decomposition: a timeline link, and a   *)
(* div titled "Birthday" whose text is any sequence of at most             *)
(* MaxBirthdayLen characters among a blank, a digit and a letter.          *)
(***************************************************************************)
BirthdayChars == {" ", "1", "M"}

Birthdays == SeqsUpTo(BirthdayChars, MaxBirthdayLen)

BirthdayPages ==
    {AboutPage(FALSE, "absent", <<>>, <<TimelineTag(<<"4">>)>>,
               [t \in {"Birthday"} |-> s], <<>>, {}) : s \in Birthdays}
        \cup
    {AboutPage(FALSE, "absent", <<>>, <<TimelineTag(<<"4">>)>>,
               [t \in {"Birthday", "Year of birth"} |->
                    IF t = "Birthday" THEN s ELSE <<"1", "1">>], <<>>, {}) :
        s \in SeqsUpTo(BirthdayChars, 1)}

\* parse_about_page on the pages of birthdays
NextAbout == ParseAboutPage(BirthdayPages)

SpecAbout == Init /\ [][NextAbout]_vars


(***************************************************************************)
(* The texts parse_buddy_list is applied to: with and without the prefix,  *)
(* a document or none.  The documents: values that are no object, objects  *)
(* without "ms", and objects whose "ms" is no list or a list of a message  *)
(* with or without "buddyList", possibly followed by a second one.  A      *)
(* buddy list is no object or holds up to MaxUsers users; an entry is no   *)
(* object, or has no "lat", or a "lat" that is a string or a number from   *)
(* -2 to MaxTimestamp + 1.                                                 *)
(***************************************************************************)
Prefix == [lex |-> "for (;;); "]
NoJson == [lex |-> "{"]
Json(value) == [lex |-> "json", value |-> value]

UserIds == {<<"9">>, <<"1", "0">>, <<"1", "0", "0">>}

LatSamples == (0 - 2)..(MaxTimestamp + 1)

EntrySamples ==
    {Obj(<< <<lat, Num(n)>> >>) : n \in LatSamples}
        \cup {Obj(<< <<<<"l", "a">>, Num(1)>> >>), Obj(<< <<lat, Str(<<"1">>)>> >>),
              Num(1)}

BuddyLists ==
    {Null, List(<<>>)}
        \cup {Obj(pairs) : pairs \in
                {p \in SeqsUpTo(UserIds \X EntrySamples, MaxUsers) :
                    \A i, j \in 1..Len(p) : i # j => p[i][1] # p[j][1]}}

\* {"type": "buddylist_overlay"}
Overlay == Obj(<< <<<<"t", "y", "p", "e">>, Str(<<"o">>)>> >>)

Messages ==
    {<<>>, <<Overlay>>, <<Num(1)>>, <<List(<<>>)>>}
        \cup {<<Obj(<< <<buddyList, b>> >>)>> \o rest :
                b \in BuddyLists,
                rest \in {<<>>, <<Overlay>>, <<Obj(<< <<buddyList, Obj(<<>>)>> >>)>>}}

Documents ==
    {Null, Num(1), Str(ms), Str(<<"x">>), List(<<>>), List(<<Str(ms)>>),
     Obj(<<>>), Overlay, Obj(<< <<ms, Null>> >>), Obj(<< <<ms, Str(<<>>)>> >>),
     Obj(<< <<ms, Str(ms)>> >>)}
        \cup {Obj(<< <<ms, List(m)>> >>) : m \in Messages}

RawJsons ==
    {<<>>, <<Prefix>>, <<NoJson>>, <<Prefix, NoJson>>}
        \cup {<<Json(d)>> : d \in Documents}
        \cup {<<Prefix, Json(d)>> : d \in Documents}
        \cup {<<Json(d), Json(d)>> : d \in {Null, Obj(<<>>)}}

ParseBuddyList(raw_jsons) ==
    /\ call = "none"
    /\ \E raw_json \in raw_jsons :
        /\ call' = "parse_buddy_list"
        /\ input' = raw_json
        /\ result' = parse_buddy_list(raw_json)
        /\ log' = ErrorsOf(buddy_call(raw_json))

\* parse_buddy_list on the texts
NextBuddy == ParseBuddyList(RawJsons)

SpecBuddy == Init /\ [][NextBuddy]_vars


(***************************************************************************)
(* Properties of the extractors and of the classifier.                     *)
(***************************************************************************)
Extractors ==
    {"parse_about_page", "parse_friends_page", "parse_likes_page",
     "parse_mutual_friends_page", "parse_timeline_years_links",
     "parse_timeline_page", "parse_reaction_page"}

HasId(body, ids) == \E k \in 1..Len(body) : body[k].id \in ids

\* the page of the call holds the anchor container of the extractor called
AnchorFound ==
    CASE call = "parse_about_page" -> input.timeline_tag # <<>>
      [] call = "parse_timeline_years_links" -> HasId(input.body, YearsContainerIds)
      [] call = "parse_timeline_page" ->
            HasId(input.body, Range(TimelineContainerIds))
      [] OTHER -> HasId(input.body, {"objects_container"})

\* the position of the first element in document order whose id is one of ids
FirstInDocument(body, ids) ==
    CHOOSE k \in 1..Len(body) :
        /\ body[k].id \in ids
        /\ \A j \in 1..(k - 1) : body[j].id \notin ids

\* C1 as stated, its first half: every extractor returns None for a page
\* without its anchor container.
C1_NotFoundIsNone ==
    (call \in Extractors /\ ~AnchorFound) => result.kind = "None"

\* C1, amended: parse_about_page, parse_friends_page, parse_likes_page,
\* parse_mutual_friends_page, parse_timeline_page and parse_reaction_page
\* return None exactly for a page without the anchor container (whatever they
\* return for a page with the container is not None, also when nothing was
\* extracted); parse_timeline_years_links returns the empty list for a page
\* without its container.
C1_NoneIffNotFound ==
    call \in Extractors =>
        IF call = "parse_timeline_years_links"
        THEN ~AnchorFound => result = Return(<<>>)
        ELSE result.kind = "None" <=> ~AnchorFound

C1_FoundButEmpty ==
    /\ call = "parse_friends_page"
    /\ AnchorFound
    /\ input.body[FirstInDocument(input.body, {"objects_container"})].links # <<>>
    /\ result.kind = "value"
    /\ result.value.content = <<<<"friends", <<>>>>>>
    /\ result.value.see_more_links = <<>>

\* the links of the container the reaction page is read from
ReactionLinks == input.body[FirstInDocument(input.body, {"objects_container"})].links

\* C2: parse_reaction_page returns ReactionResult(likers=[], see_more_link=None)
\* for a page whose container holds no valid liker link and no "See more" link,
\* and None for a page without the container.
C2_EmptyReactionPage ==
    call = "parse_reaction_page" =>
        IF ~AnchorFound THEN result.kind = "None"
        ELSE (/\ \A k \in 1..Len(ReactionLinks) : ~IsLikerLink(ReactionLinks[k])
              /\ \A k \in 1..Len(ReactionLinks) : ReactionLinks[k].text # SeeMore)
             => result = Return([likers |-> <<>>, see_more_link |-> <<>>])

C2_FoundWithoutLikers ==
    /\ call = "parse_reaction_page"
    /\ AnchorFound
    /\ ReactionLinks # <<>>
    /\ result = Return([likers |-> <<>>, see_more_link |-> <<>>])

\* C3 as stated: the page is classified "temporarily unavailable" whenever it
\* holds no login input and the text "It may be temporarily unavailable".
C3_TextAnywhere ==
    call = "detect_error_type" =>
        result.value =
            IF input.login_input THEN LoginRequested
            ELSE IF input.unavailable # "absent" THEN TemporarilyUnavailable
            ELSE FailedToParse

\* C3, amended: detect_error_type returns exactly one of the three categories:
\* "login required" whenever a login input is present, "temporarily
\* unavailable" when there is no login input and the text "It may be
\* temporarily unavailable" is the string of a span element, and "failed to
\* parse" exactly when there is neither a login input nor such a span.
C3_Classification ==
    call = "detect_error_type" =>
        /\ result.value \in ErrorTypes
        /\ result.value = LoginRequested <=> input.login_input
        /\ result.value = TemporarilyUnavailable <=>
                (~input.login_input /\ input.unavailable = "span")
        /\ result.value = FailedToParse <=>
                (~input.login_input /\ input.unavailable # "span")

C3_LoginAndText ==
    /\ call = "detect_error_type"
    /\ input.login_input
    /\ input.unavailable = "span"
    /\ result.value = LoginRequested

\* the position of the element whose id comes first in the list ids
FirstInList(body, ids) ==
    FirstInDocument(body,
        {ids[CHOOSE i \in 1..Len(ids) :
                /\ HasId(body, {ids[i]})
                /\ \A j \in 1..(i - 1) : ~HasId(body, {ids[j]})]})

\* the articles parse_timeline_page returns when it reads the element at k
ArticlesFrom(k) == timeline_articles(<<>>, input.body[k].articles).value

\* C4 as stated: the container parse_timeline_page reads is the one whose id
\* comes first in the list of candidate ids.
C4_FirstInList ==
    (call = "parse_timeline_page" /\ result.kind = "value") =>
        result.value.articles =
            ArticlesFrom(FirstInList(input.body, TimelineContainerIds))

\* C4, amended: when a timeline page holds several of the candidate container
\* ids, the container parse_timeline_page reads is the first element in
\* document order whose id is any of the candidates, whatever the place of
\* its id in the list.
C4_FirstInDocument ==
    (call = "parse_timeline_page" /\ result.kind = "value") =>
        result.value.articles =
            ArticlesFrom(FirstInDocument(input.body, Range(TimelineContainerIds)))

C4_TwoContainers ==
    /\ call = "parse_timeline_page"
    /\ Len(input.body) = 2
    /\ input.body[1].id = "timelineBody"
    /\ input.body[2].id = "tlFeed"
    /\ result.kind = "value"
    /\ Keys(result.value.articles) = <<1>>

(***************************************************************************)
(* Properties of parse_post and of the assembly of the timeline.           *)
(***************************************************************************)
\* the article has a child carrying data-ft
HasMetadataBlock(article) ==
    \E k \in 1..Len(article.children) :
        article.children[k].tag /\ article.children[k].data_ft

\* the targets the participant scan reads: those beginning with "/" under the
\* tag children before the first child carrying data-ft
RECURSIVE ScannedTargets(_)
ScannedTargets(children) ==
    IF children = <<>> THEN {}
    ELSE IF Head(children).tag /\ Head(children).data_ft THEN {}
    ELSE {href \in Range(Head(children).hrefs) : Head(children).tag /\ href[1] = "/"}
            \cup ScannedTargets(Tail(children))

\* a scanned target holds "/profile.php" past its first character, and not
\* "/profile.php?id="
ProfileLinkWithoutId(article) ==
    \E href \in ScannedTargets(article.children) :
        /\ Contains(DropFirst(href, 1), ProfilePhp)
        /\ ~Contains(DropFirst(href, 1), ProfilePhpId)

\* C5 as stated, for the metadata block: an article without a child carrying
\* data-ft yields no record, also when it has the id element and the date
\* element.
C5_SkipWithoutMetadata ==
    (/\ call = "parse_post"
     /\ input # <<>>
     /\ ~HasMetadataBlock(input[1])
     /\ input[1].abbr # <<>>
     /\ input[1].like # <<>>)
        => result.kind # "value"

\* C5, amended: parse_post returns the skip signal None whenever the content
\* node lacks the id element (id matching like_<digits>) or the date element
\* (abbr), each absence alone and whether or not the metadata block is
\* present, unless a link scanned before holds "/profile.php" without
\* "/profile.php?id=", on which the call raises IndexError.  The absence of
\* the metadata block alone causes no skip.
C5_SkipWithoutDateOrId ==
    (/\ call = "parse_post"
     /\ input # <<>>
     /\ (input[1].abbr = <<>> \/ input[1].like = <<>>))
        => IF ProfileLinkWithoutId(input[1])
           THEN result = Raise("IndexError")
           ELSE result.kind = "None"

C5_OnlyIdMissing ==
    /\ call = "parse_post"
    /\ input # <<>>
    /\ HasMetadataBlock(input[1])
    /\ input[1].abbr # <<>>
    /\ input[1].h3 = <<>>
    /\ input[1].like = <<>>
    /\ result.kind = "None"

\* C6: parse_timeline_page never raises an exception to its caller, whatever
\* sub-fields the articles of the container lack.
C6_NeverRaises ==
    call = "parse_timeline_page" => result.kind # "raise"

\* the articles of the container of a page of posts
PageArticles == input.body[1].articles

\* the article at j is the last of the page that yields a record with post_id id
LastYielding(j, id) ==
    /\ parse_post(<<PageArticles[j]>>).kind = "value"
    /\ parse_post(<<PageArticles[j]>>).value.post_id = id
    /\ \A k \in (j + 1)..Len(PageArticles) :
            parse_post(<<PageArticles[k]>>).kind = "value"
                => parse_post(<<PageArticles[k]>>).value.post_id # id

\* C7: when several articles of the container yield the same post_id, the
\* TimelineResult holds exactly one entry for that id, and its record is the
\* one of the last of these articles in document order (its date).
C7_LastOccurrenceWins ==
    (call = "parse_timeline_page" /\ result.kind = "value") =>
        \A j \in 1..Len(PageArticles) : \A id \in 0..9 :
            LastYielding(j, id) =>
                /\ Cardinality({k \in 1..Len(result.value.articles) :
                                    result.value.articles[k][1] = id}) = 1
                /\ Get(result.value.articles, id).date_org = PageArticles[j].abbr[1]
                /\ Get(result.value.articles, id) =
                        parse_post(<<PageArticles[j]>>).value

C7_SameIdTwice ==
    /\ call = "parse_timeline_page"
    /\ Len(PageArticles) = 2
    /\ PageArticles[1] = Post(1, Date1)
    /\ PageArticles[2] = Post(1, Date2)
    /\ result.kind = "value"
    /\ Len(result.value.articles) = 1
    /\ result.value.articles[1][2].date_org = Date2

\* C8: a post with an id element like_<N>, a date element, no reaction link, a
\* comment link "K Comments", no link before its metadata block and no "Full
\* Story" link yields the record with post_id N, like_count 0, comment_count
\* K, the date text, no participants and the empty story_link.
C8_OnePostRecord ==
    (/\ call = "parse_post"
     /\ input # <<>>
     /\ input[1].like # <<>>
     /\ input[1].abbr # <<>>
     /\ input[1].like[1].reaction = <<>>
     /\ input[1].comment # <<>>
     /\ ScannedTargets(input[1].children) = {}
     /\ input[1].full_story = <<>>)
        => /\ result.kind = "value"
           /\ result.value.post_id = IntOf(input[1].like[1].n)
           /\ result.value.like_count = 0
           /\ result.value.comment_count = IntOf(Remove(input[1].comment[1], Comma))
           /\ result.value.date_org = input[1].abbr[1]
           /\ result.value.participants = <<>>
           /\ result.value.story_link = <<>>

(***************************************************************************)
(* Properties of the suffix stripping and of the birthday decomposition.   *)
(***************************************************************************)
Markers == {AmpRefid18, QRefid18, QLst, AmpFref, AmpLst}

\* C9: the suffix stripping of parse_post is idempotent: stripping a stripped
\* identifier returns it unchanged, and no marker occurs in it.
C9_StripIdempotent ==
    call = "strip_suffix" =>
        /\ strip_suffix(result.value) = result.value
        /\ \A marker \in Markers : ~Contains(result.value, marker)

C9_TwoMarkers ==
    /\ call = "strip_suffix"
    /\ Contains(input, QLst)
    /\ Contains(input, AmpRefid18)
    /\ Find(input, QLst) < Find(input, AmpRefid18)
    /\ result.value # input
    /\ result.value # <<>>

\* the raw birthday string of the page of the call
RawBirthday == input.titled["Birthday"]

\* C10: for every raw birthday string s, parse_about_page does not raise; if s
\* has exactly two spaces, day_and_month_of_birth is its first two tokens
\* joined by a space and year_of_birth its third token as an integer;
\* otherwise day_and_month_of_birth is s and the record has no year_of_birth.
C10_BirthdaySplit ==
    (call = "parse_about_page" /\ DOMAIN input.titled = {"Birthday"}) =>
        /\ result.kind = "value"
        /\ IF Count(RawBirthday, " ") = 2
           THEN /\ Get(result.value, "day_and_month_of_birth") =
                        Join(SubSeq(Split(RawBirthday, <<" ">>), 1, 2), <<" ">>)
                /\ Get(result.value, "year_of_birth") =
                        IntOf(Split(RawBirthday, <<" ">>)[3])
           ELSE /\ Get(result.value, "day_and_month_of_birth") = RawBirthday
                /\ ~HasKey(result.value, "year_of_birth")

(***************************************************************************)
(* Properties of parse_buddy_list.                                         *)
(***************************************************************************)
\* the text of the call decodes, and what it decodes to
Decodes == Len(valid_raw_json(input)) = 1 /\ valid_raw_json(input)[1].lex = "json"
Decoded == valid_raw_json(input)[1].value

\* the decoded value is an object whose "ms" is a list
HasMessages ==
    /\ Decodes
    /\ Decoded.t = "obj"
    /\ HasKey(Decoded.pairs, ms)
    /\ Get(Decoded.pairs, ms).t = "list"

MessagesOf == Get(Decoded.pairs, ms).items

\* no element of the list is an object with the key "buddyList"
NoBuddyList ==
    \A k \in 1..Len(MessagesOf) :
        ~(MessagesOf[k].t = "obj" /\ HasKey(MessagesOf[k].pairs, buddyList))

\* C11: parse_buddy_list never raises, and a text that does not decode, that
\* decodes to something without the list "ms" (a value that is no object
\* included), or whose list elements hold no "buddyList" yields the empty
\* ordered mapping.
C11_MalformedIsEmpty ==
    call = "parse_buddy_list" =>
        /\ result.kind # "raise"
        /\ (~HasMessages \/ NoBuddyList) => result = Return(<<>>)

\* the messages are objects and the buddy list they give (the last "buddyList"
\* among them) is an object
HasBuddies ==
    /\ HasMessages
    /\ ~NoBuddyList
    /\ \A k \in 1..Len(MessagesOf) : MessagesOf[k].t = "obj"
    /\ Get(flatten(<<>>, MessagesOf).value, buddyList).t = "obj"

\* the users of the buddy list with their entries
Buddies == Get(flatten(<<>>, MessagesOf).value, buddyList).pairs

\* the entry of the user at k bears a last-active field
BearsLat(k) == Buddies[k][2].t = "obj" /\ HasKey(Buddies[k][2].pairs, lat)

LatOf(k) == Get(Buddies[k][2].pairs, lat)

\* C12: for every user entry of the buddy list bearing a last-active field, the
\* value -1 yields an empty times list and any value >= 0 a times list of
\* exactly one formatted timestamp.
C12_PresenceSentinel ==
    (call = "parse_buddy_list" /\ HasBuddies) =>
        \A k \in 1..Len(Buddies) :
            (BearsLat(k) /\ LatOf(k).t = "num" /\ LatOf(k).n >= 0 - 1) =>
                /\ result.kind = "value"
                /\ HasKey(result.value, Buddies[k][1])
                /\ Len(Get(result.value, Buddies[k][1]).times) =
                        IF LatOf(k).n = 0 - 1 THEN 0 ELSE 1

\* the user ids of the texts, in ascending order of their strings
LexicographicOrder == << <<"1", "0">>, <<"1", "0", "0">>, <<"9">> >>

PlaceOf(user) == CHOOSE k \in 1..Len(LexicographicOrder) : LexicographicOrder[k] = user

\* C13: the mapping returned by parse_buddy_list has as keys exactly the user
\* ids of the buddy list whose entry bears a last-active field, in ascending
\* lexicographic order of the user-id strings.
C13_KeysSorted ==
    (call = "parse_buddy_list" /\ result.kind = "value") =>
        /\ Range(Keys(result.value)) =
                IF HasBuddies
                THEN {Buddies[k][1] : k \in {j \in 1..Len(Buddies) : BearsLat(j)}}
                ELSE {}
        /\ \A i, j \in 1..Len(result.value) :
                i < j => PlaceOf(result.value[i][1]) < PlaceOf(result.value[j][1])

C13_TenBeforeNine ==
    /\ call = "parse_buddy_list"
    /\ HasBuddies
    /\ Len(Buddies) = 2
    /\ Buddies[1][1] = <<"9">>
    /\ Buddies[2][1] = <<"1", "0", "0">>
    /\ result.kind = "value"
    /\ Keys(result.value) = << <<"1", "0", "0">>, <<"9">> >>

(***************************************************************************)
(* Properties of parse_likes_page and of parse_friends_page.               *)
(***************************************************************************)
\* the container the page of the call is read from
ObjectsContainer == input.body[FirstInDocument(input.body, {"objects_container"})]

\* the link is recorded as an item of its section
IsItemLink(link) ==
    RootedHref(link) /\ Strip(link.text) # SeeMore /\ link.text # Like

\* C14: when the container of parse_likes_page declares a top-level category
\* name (an h2), the result has that name as its only key and the items of
\* every h3/h4 section of the container are recorded under it.
C14_SharedCategory ==
    (/\ call = "parse_likes_page"
     /\ AnchorFound
     /\ ObjectsContainer.h2 # <<>>
     /\ ObjectsContainer.categories # <<>>)
        => /\ result.kind = "value"
           /\ Keys(result.value.content) = <<ObjectsContainer.h2[1]>>
           /\ \A k \in 1..Len(ObjectsContainer.categories) :
                \A j \in 1..Len(ObjectsContainer.categories[k].links) :
                    IsItemLink(ObjectsContainer.categories[k].links[j]) =>
                        HasKey(result.value.content[1][2],
                               DropFirst(ObjectsContainer.categories[k].links[j].href[1], 1))

\* the links of the container that are friend entries: their target starts
\* with "/" and carries the marker fref=fr_tab
MarkedLinks ==
    SelectSeq(ObjectsContainer.links,
              LAMBDA link : /\ link.href # <<>>
                            /\ link.href[1][1] = "/"
                            /\ Contains(link.href[1], <<"fref", "=fr_tab">>))

\* the friends of the result
FriendsFound == result.value.content[1][2]

PlacesOf(key) == {k \in 1..Len(MarkedLinks) : DropFirst(MarkedLinks[k].href[1], 1) = key}

Max(S) == CHOOSE x \in S : \A y \in S : y <= x

IdOf(href) == SplitFirst(DropFirst(href, Find(href, <<"id=">>)), Amp)

\* the participants of the record of the call
Participants == result.value.participants

\* C16 as stated: for every link scanned whose target begins with "/" and
\* contains "/profile.php", the participant added is the numeric id between
\* "id=" and the next "&".
C16_ProfileIdAdded ==
    (call = "parse_post" /\ input # <<>> /\ result.kind = "value") =>
        \A href \in ScannedTargets(input[1].children) :
            Contains(href, ProfilePhp) => IdOf(href) \in Range(Participants)

\* C16, amended: the scan looks for "/profile.php" in the target without its
\* first character.  For a target that holds it there with "/profile.php?id="
\* (e.g. /groups/profile.php?id=3333&refid=18) the participant added is the
\* text between "/profile.php?id=" and the next "&"; a target that holds it
\* there without "/profile.php?id=" makes the call raise IndexError; a target
\* that begins with "/profile.php?id=" (e.g. /profile.php?id=3333&refid=18) is
\* no profile target: the participant added is the target without its leading
\* "/" cut at the first marker (profile.php?id=3333).
C16_ProfileIdNested ==
    (call = "parse_post" /\ input # <<>>) =>
        IF ProfileLinkWithoutId(input[1])
        THEN result = Raise("IndexError")
        ELSE result.kind = "value" =>
                \A href \in ScannedTargets(input[1].children) :
                    /\ Contains(DropFirst(href, 1), ProfilePhp)
                            => IdOf(href) \in Range(Participants)
                    /\ (/\ Len(href) >= 4
                        /\ SubSeq(href, 1, 4) = ProfilePhpId
                        /\ ~Contains(DropFirst(href, 1), ProfilePhp)
                        /\ Contains(href, AmpRefid18))
                            => SubSeq(href, 2, Find(href, AmpRefid18) - 1)
                                    \in Range(Participants)

C16_ProfileTargetStripped ==
    /\ call = "parse_post"
    /\ input # <<>>
    /\ Len(input[1].children) = 2
    /\ input[1].children[1].hrefs =
            << <<"/", "profile.php", "?", "id=", "3333", "&", "refid=18">> >>
    /\ result.kind = "value"
    /\ Participants = << <<"profile.php", "?", "id=", "3333">> >>

\* the target cut at the first marker, in the order of the list, that occurs
CutAtFirstListed(link_found) ==
    IF Contains(link_found, AmpRefid18) THEN SplitFirst(link_found, AmpRefid18)
    ELSE IF Contains(link_found, QRefid18) THEN SplitFirst(link_found, QRefid18)
    ELSE IF Contains(link_found, QLst) THEN SplitFirst(link_found, QLst)
    ELSE IF Contains(link_found, AmpFref) THEN SplitFirst(link_found, AmpFref)
    ELSE SplitFirst(link_found, AmpLst)

\* the target cut at the leftmost occurrence of any marker
CutAtLeftmost(link_found) ==
    SubSeq(link_found, 1, Min({Find(link_found, marker) : marker \in Markers}) - 1)

\* participants_found after the step, when id_found is the stripped result
Appended(id_found) ==
    IF /\ id_found # input.link_found
       /\ id_found \notin Range(input.participants_found)
       /\ ~Contains(id_found, <<"/", "photos", "/">>)
       /\ ~Contains(id_found, <<"story.php", "?">>)
    THEN Append(input.participants_found, id_found)
    ELSE input.participants_found

\* C17 as stated: for a target that is no profile.php target the markers are
\* tried in the order of the list and the stripping stops at the first that
\* matches; the stripped result is appended if and only if it differs from the
\* target, is not in the list yet and contains neither "/photos/" nor
\* "story.php?".
C17_StopAtFirstMarker ==
    (call = "scan_link" /\ ~Contains(input.link_found, ProfilePhp)) =>
        result = Return(Appended(CutAtFirstListed(input.link_found)))

\* C17, amended: for a target that is no profile.php target the five cuts
\* (&refid=18, ?refid=18, ?lst, &fref, &lst) are all applied, each to the
\* result of the one before, so that the stripped result is the target up to
\* the leftmost occurrence of any marker; it is appended if and only if it
\* differs from the target, is not in the list yet and contains neither
\* "/photos/" nor "story.php?".
C17_AllMarkersApplied ==
    (call = "scan_link" /\ ~Contains(input.link_found, ProfilePhp)) =>
        result = Return(Appended(CutAtLeftmost(input.link_found)))

C17_LaterMarkerCuts ==
    /\ call = "scan_link"
    /\ input.link_found = <<"username", "?", "lst", "&", "refid=18">>
    /\ input.participants_found = <<>>
    /\ result = Return(<< <<"username">> >>)

\* the targets the participant scan reads, in the order it reads them
RECURSIVE ScannedInOrder(_)
ScannedInOrder(children) ==
    IF children = <<>> THEN <<>>
    ELSE IF ~Head(children).tag THEN ScannedInOrder(Tail(children))
    ELSE IF Head(children).data_ft THEN <<>>
    ELSE SelectSeq(Head(children).hrefs, LAMBDA href : href[1] = "/")
            \o ScannedInOrder(Tail(children))

\* the identifier a scanned target stands for
IdentifierOf(href) ==
    IF Contains(DropFirst(href, 1), ProfilePhp) THEN IdOf(href)
    ELSE CutAtLeftmost(DropFirst(href, 1))

\* the place of the first scanned target that stands for the identifier
DiscoveryOf(id) ==
    Min({k \in 1..Len(ScannedInOrder(input[1].children)) :
            IdentifierOf(ScannedInOrder(input[1].children)[k]) = id}
        \cup {Len(ScannedInOrder(input[1].children)) + 1})

\* C18: the participants of every record returned by parse_post hold no
\* identifier twice, and the identifiers are in the order of their first
\* discovery in the document.
C18_UniqueInOrder ==
    (call = "parse_post" /\ input # <<>> /\ result.kind = "value") =>
        \A i, j \in 1..Len(Participants) :
            i < j => /\ Participants[i] # Participants[j]
                     /\ DiscoveryOf(Participants[i]) < DiscoveryOf(Participants[j])

(***************************************************************************)
(* C19 - C20: the scan of the header of a post.                            *)
(***************************************************************************)
\* parse_post was given an article whose h3 element it reads
HeaderScanned ==
    /\ call = "parse_post"
    /\ input # <<>>
    /\ input[1].abbr # <<>>
    /\ input[1].like # <<>>
    /\ input[1].h3 # <<>>

Header == input[1].h3[1]

SpanChildren == {k \in 1..Len(Header) : Header[k].name = "span"}

BeforeMarker(k) == \A j \in SpanChildren : k < j

Says(k, w) == HasWord(words_of(Header[k].text), w)

\* the link of a child: the child when it is a link, the link it holds otherwise
LinkOf(child) ==
    IF child.name = "a" THEN <<[text |-> child.text, href |-> child.href]>>
    ELSE child.a

HasLink(k) == LinkOf(Header[k]) # <<>> /\ LinkOf(Header[k])[1].href # <<>>

TargetAt(k) ==
    [name |-> LinkOf(Header[k])[1].text,
     url |-> SplitFirst(LinkOf(Header[k])[1].href[1], Amp)]

\* the children that follow a child saying "at", and "with" or "and"
LocationTargets == {k \in 2..Len(Header) : BeforeMarker(k) /\ Says(k - 1, "at")}

CompanionTargets ==
    {k \in 2..Len(Header) :
        BeforeMarker(k) /\ (Says(k - 1, "with") \/ Says(k - 1, "and"))}

Nth(S, i) == CHOOSE x \in S : Cardinality({y \in S : y < x}) = i - 1

LocationExpected ==
    IF LocationTargets = {} THEN <<>> ELSE <<TargetAt(Max(LocationTargets))>>

CompanionsExpected ==
    [i \in 1..Cardinality(CompanionTargets) |-> TargetAt(Nth(CompanionTargets, i))]

\* C19 as stated: in the header scan of parse_post, the child that follows a
\* child whose text holds the word "at" (whatever its case) is the location:
\* the record's location is the text of that child's link and the link's
\* target up to its first "&"; the child that follows a child saying "with"
\* or "and" is a companion read the same way; no other child changes the
\* location or the companions.
C19_NextChildIsTarget ==
    (HeaderScanned /\ \A k \in LocationTargets \cup CompanionTargets : HasLink(k)) =>
        /\ result.kind = "value"
        /\ result.value.location = LocationExpected
        /\ header_scan(header_start, Header).value.withs = CompanionsExpected

\* the header cut before its first span child
BeforeFirstMarker == SubSeq(Header, 1, Min(SpanChildren) - 1)

\* a child saying one of the words is the last one before the first span, and
\* none before it was a target
PendingAtMarker ==
    /\ Min(SpanChildren) > 1
    /\ Says(Min(SpanChildren) - 1, "at") \/ Says(Min(SpanChildren) - 1, "with")
          \/ Says(Min(SpanChildren) - 1, "and")
    /\ LocationTargets = {} /\ CompanionTargets = {}

\* C20: in the header scan of parse_post, the scan stops at a span child of the
\* header: what parse_post returns, and the companions of the scan, are those
\* of the header cut before the span, and a target awaited when the span is
\* met is dropped without error.
C20_MarkerStopsScan ==
    (HeaderScanned /\ SpanChildren # {}) =>
        /\ result = parse_post(<<[input[1] EXCEPT !.h3 = <<BeforeFirstMarker>>]>>)
        /\ header_scan(header_start, Header) =
               header_scan(header_start, BeforeFirstMarker)
        /\ PendingAtMarker =>
               /\ result.kind = "value"
               /\ result.value.location = <<>>
               /\ header_scan(header_start, Header).value.withs = <<>>

\* a location is awaited when the span is met, a child holding a link follows
\* the span, and the post has no location
C20_PendingDropped ==
    /\ HeaderScanned
    /\ Len(Header) = 3
    /\ Says(1, "at")
    /\ Header[2].name = "span"
    /\ Header[3].name = "strong"
    /\ result.kind = "value"
    /\ result.value.location = <<>>

(***************************************************************************)
(* C21: the states of the scan of the header of a post.                    *)
(***************************************************************************)
\* the scan after the first k children of the header
ScanAfter(k) == header_scan(header_start, SubSeq(Header, 1, k))

\* the child at k is read as a target: a target is awaited when it is met
Consumed(k) ==
    /\ ScanAfter(k - 1).kind = "value"
    /\ ScanAfter(k - 1).value.with_exist \/ ScanAfter(k - 1).value.location_exist

\* C21 as stated: the header scan of parse_post has three states: after every
\* child at most one of a companion and a location is awaited, and after a
\* child read as a target none is awaited, whatever the text of that child.
C21_ThreeStates ==
    HeaderScanned =>
        \A k \in 1..Len(Header) :
            (BeforeMarker(k) /\ ScanAfter(k).kind = "value") =>
                /\ ~(ScanAfter(k).value.with_exist
                        /\ ScanAfter(k).value.location_exist)
                /\ Consumed(k) =>
                        /\ ~ScanAfter(k).value.with_exist
                        /\ ~ScanAfter(k).value.location_exist

(***************************************************************************)
(* C22: the order of the mapping parse_timeline_page returns.              *)
(***************************************************************************)
\* the article at k yields a record with post_id id
Yields(k, id) ==
    /\ parse_post(<<PageArticles[k]>>).kind = "value"
    /\ parse_post(<<PageArticles[k]>>).value.post_id = id

YieldedIds == {id \in 0..9 : \E k \in 1..Len(PageArticles) : Yields(k, id)}

FirstYielding(id) == Min({k \in 1..Len(PageArticles) : Yields(k, id)})

TimelineKeys == Keys(result.value.articles)

\* C22: in the mapping parse_timeline_page returns, the keys are the distinct
\* post_ids the articles yield, each once, in the order of their first
\* articles in the document, and the record of a post_id is the one of the
\* last article that yields it.
C22_FirstPlaceLastRecord ==
    (call = "parse_timeline_page" /\ result.kind = "value") =>
        /\ {TimelineKeys[i] : i \in 1..Len(TimelineKeys)} = YieldedIds
        /\ \A i, j \in 1..Len(TimelineKeys) :
                i < j => /\ TimelineKeys[i] # TimelineKeys[j]
                         /\ FirstYielding(TimelineKeys[i])
                                < FirstYielding(TimelineKeys[j])
        /\ \A id \in YieldedIds : \A k \in 1..Len(PageArticles) :
                LastYielding(k, id) =>
                    Get(result.value.articles, id) =
                        parse_post(<<PageArticles[k]>>).value

\* a post met again after another post: it keeps the first place and takes
\* the later date
C22_ReturnsToFirstId ==
    /\ call = "parse_timeline_page"
    /\ PageArticles = <<Post(1, Date1), Post(2, Date1), Post(1, Date2)>>
    /\ result.kind = "value"
    /\ TimelineKeys = <<1, 2>>
    /\ result.value.articles[1][2].date_org = Date2

====
